---- MODULE Spec2Model ----
(***************************************************************************)
(* TelemetryXF1 (src/app.py): a Streamlit script that is re-executed from   *)
(* top to bottom after every widget change.  The state is the widget state  *)
(* (the two driver boxes, the two lap boxes, the alignment checkbox), the   *)
(* loaded session (the telemetry provider's data) and what the last        *)
(* execution of the script computed and put on the page.  One action per    *)
(* widget change; each runs the whole script.                               *)
(***************************************************************************)
EXTENDS Integers, Sequences, FiniteSets, TLC

VARIABLES
    session,     \* the provider's data behind the loaded session object
    d1, d2,      \* "Driver A" / "Driver B" select boxes
    lap1, lap2,  \* "Lap A" / "Lap B" select boxes: a label, or NoLabel
    show_delta,  \* "Align by Distance (Delta Mode)" checkbox
    view,        \* locals and page output of the last execution of the script
    call         \* a direct call of _driver_team(session, code) and its outcome

vars == <<session, d1, d2, lap1, lap2, show_delta, view, call>>

(***************************************************************************)
(* Bounds of the model.                                                    *)
(***************************************************************************)
MaxLaps == 2        \* laps recorded per driver: 0 .. MaxLaps
MaxSamples == 2     \* telemetry samples per lap: 0 .. MaxSamples

(***************************************************************************)
(* Text.  A Python str is a sequence of one-character strings.  MidDot     *)
(* stands for the single character U+00B7.                                  *)
(***************************************************************************)
MidDot == "MIDDLE DOT"
Sep == <<" ", MidDot, " ">>
NaTStr == <<"N", "a", "T">>
DigitChars == <<"0", "1", "2", "3", "4", "5", "6", "7", "8", "9">>
IsDigit(c) == \E i \in 1..10 : DigitChars[i] = c
DigitVal(c) == (CHOOSE i \in 1..10 : DigitChars[i] = c) - 1

\* str(n) for an int n >= 0
RECURSIVE IntStr(_)
IntStr(n) ==
    IF n < 10 THEN <<DigitChars[n + 1]>>
    ELSE IntStr(n \div 10) \o <<DigitChars[(n % 10) + 1]>>

\* str(x) for a float64 x holding the whole number n: "12.0"
FloatStr(n) == IntStr(n) \o <<".", "0">>

\* int(s): ValueError unless s is a non-empty run of decimal digits
RECURSIVE DigitsVal(_)
DigitsVal(s) ==
    IF Len(s) = 0 THEN 0
    ELSE 10 * DigitsVal(SubSeq(s, 1, Len(s) - 1)) + DigitVal(s[Len(s)])

PyInt(s) ==
    IF Len(s) > 0 /\ \A i \in 1..Len(s) : IsDigit(s[i])
    THEN [ok |-> TRUE, value |-> DigitsVal(s)]
    ELSE [ok |-> FALSE, exc |-> "ValueError"]

\* s.split(sep)[0]: the text before the first occurrence of sep, or all of s
IsAt(s, sep, i) ==
    /\ i + Len(sep) - 1 <= Len(s)
    /\ \A k \in 1..Len(sep) : s[i + k - 1] = sep[k]
SplitFirst(s, sep) ==
    IF \E i \in 1..Len(s) : IsAt(s, sep, i)
    THEN LET i == CHOOSE j \in 1..Len(s) :
                      /\ IsAt(s, sep, j)
                      /\ \A k \in 1..(j - 1) : ~IsAt(s, sep, k)
         IN SubSeq(s, 1, i - 1)
    ELSE s

(***************************************************************************)
(* The provider (fastf1): what a loaded session answers.                   *)
(***************************************************************************)
Drivers == {"HAM", "VER"}
DriverList == <<"HAM", "VER">>                  \* sorted(session.drivers)

LapTeamName(d) == IF d = "HAM" THEN "Mercedes" ELSE "Red Bull Racing"
InfoTeamName(d) == IF d = "HAM" THEN "Mercedes" ELSE "Red Bull"
TeamNames == {"Mercedes", "Red Bull Racing", "Red Bull"}

\* the Team column of a driver's laps
TeamCols == {"nocolumn", "null", "set"}
\* what session.get_driver(code) does: raise, or return a record that is a
\* dict or the provider's own Series-like result type, with a team name,
\* with an empty one, or without the key
InfoKinds == {"raises", "dict", "dict_empty", "dict_nokey",
              "series", "series_nokey"}

TimedStr == <<"0", " ", "d", "a", "y", "s", " ", "0", "0", ":", "0", "1",
              ":", "3", "0">>

\* session.laps.pick_driver(code): the driver's rows in lap order, or an
\* exception when the session's lap data cannot be read
PickDriver(ses, d) ==
    IF ses.lapsFail THEN [ok |-> FALSE, exc |-> "DataNotLoadedError"]
    ELSE [ok |-> TRUE,
          columns |-> {"Driver", "LapNumber", "LapTime"}
                        \cup (IF ses.teamCol[d] = "nocolumn" THEN {} ELSE {"Team"}),
          rows |-> [i \in 1..ses.nLaps[d] |->
                      [Driver |-> d,
                       LapNumber |-> [rep |-> ses.numRep, n |-> i],
                       LapTime |-> IF i \in ses.natLaps THEN "NaT" ELSE "timed",
                       Team |-> IF ses.teamCol[d] = "set"
                                THEN LapTeamName(d) ELSE "NaN"]]]

\* session.get_driver(code)
GetDriver(ses, d) ==
    IF ses.info = "raises" THEN [ok |-> FALSE, exc |-> "ValueError"]
    ELSE [ok |-> TRUE,
          isdict |-> ses.info \in {"dict", "dict_empty", "dict_nokey"},
          keys |-> IF ses.info \in {"dict_nokey", "series_nokey"}
                   THEN {} ELSE {"TeamName"},
          TeamName |-> IF ses.info \in {"dict", "series"}
                       THEN InfoTeamName(d) ELSE ""]

Channels == {"Distance", "Speed", "Throttle", "Brake", "nGear", "RPM"}
Position == {"X", "Y"}

\* lap.get_telemetry(): the samples of one lap; Brake in the provider's own
\* representation; lap is <<driver, lap number>>
GetTelemetry(ses, lap) ==
    [origin |-> "get_telemetry",
     lap |-> lap,
     columns |-> ses.cols[lap[1]],
     nulls |-> ses.nullCols[lap[1]] \cap ses.cols[lap[1]],
     nrows |-> ses.samples,
     Brake |-> ses.brake]

\* fastf1.utils.delta_time(lap_a, lap_b): raises, or returns the two laps'
\* telemetry re-indexed on a common distance axis
DeltaTime(ses, lap_a, lap_b) ==
    IF ses.align = "raises" THEN [ok |-> FALSE, exc |-> "Exception"]
    ELSE [ok |-> TRUE,
          ref_tel |-> [origin |-> "delta_time", lap |-> lap_a,
                       columns |-> ses.alignedCols[1], nulls |-> {},
                       nrows |-> ses.samples, Brake |-> ses.brake],
          compare_tel |-> [origin |-> "delta_time", lap |-> lap_b,
                           columns |-> ses.alignedCols[2], nulls |-> {},
                           nrows |-> ses.samples, Brake |-> ses.brake]]

\* fastf1.plotting.team_color(team): the team's color, or an exception for a
\* team the provider does not know
PaletteColor(team) == IF team = "Mercedes" THEN "#27F4D2" ELSE "#3671C6"
TeamColor(ses, team) ==
    IF team \in ses.known THEN [ok |-> TRUE, value |-> PaletteColor(team)]
    ELSE [ok |-> FALSE, exc |-> "KeyError"]

(***************************************************************************)
(* The functions of src/app.py.                                            *)
(***************************************************************************)
\* _driver_team(session, code): [ok, value] or the exception that escapes
DriverTeam(ses, code) ==
    LET laps == PickDriver(ses, code) IN
    IF ~laps.ok THEN [ok |-> FALSE, exc |-> laps.exc]
    ELSE IF /\ Len(laps.rows) > 0
            /\ "Team" \in laps.columns
            /\ laps.rows[1].Team # "NaN"
    THEN [ok |-> TRUE, value |-> laps.rows[1].Team]
    ELSE LET info == GetDriver(ses, code) IN
         IF /\ info.ok
            /\ info.isdict
            /\ "TeamName" \in info.keys
            /\ info.TeamName # ""
         THEN [ok |-> TRUE, value |-> info.TeamName]
         ELSE [ok |-> TRUE, value |-> "Unknown"]

\* Series.astype(str) on the LapNumber and LapTime columns
NumStr(x) == IF x.rep = "int" THEN IntStr(x.n) ELSE FloatStr(x.n)
TimeStr(t) == IF t = "NaT" THEN NaTStr ELSE TimedStr

LapLabel(row) == NumStr(row.LapNumber) \o Sep \o TimeStr(row.LapTime)

\* load_driver_laps(session, driver_code): the rows, each with its LapLabel
LoadDriverLaps(ses, d) ==
    LET laps == PickDriver(ses, d) IN
    IF ~laps.ok THEN laps
    ELSE [ok |-> TRUE,
          columns |-> laps.columns
                        \cup (IF Len(laps.rows) > 0 THEN {"LapLabel"} ELSE {}),
          rows |-> [i \in 1..Len(laps.rows) |->
                      [Driver |-> laps.rows[i].Driver,
                       LapNumber |-> laps.rows[i].LapNumber,
                       LapTime |-> laps.rows[i].LapTime,
                       Team |-> laps.rows[i].Team,
                       LapLabel |-> LapLabel(laps.rows[i])]]]

\* Series.astype(int) on one Brake sample
AsInt(v) ==
    IF v.t = "bool" THEN [t |-> "int", v |-> IF v.b THEN 1 ELSE 0]
    ELSE [t |-> "int", v |-> v.v]

\* load_lap_telemetry(session, lap)
LoadLapTelemetry(ses, lap) ==
    LET tel == GetTelemetry(ses, lap) IN
    IF "Brake" \in tel.columns
    THEN [tel EXCEPT !.Brake = [i \in 1..Len(tel.Brake) |-> AsInt(tel.Brake[i])]]
    ELSE tel

(***************************************************************************)
(* The script body: lines 84-166, one execution.                           *)
(***************************************************************************)
NoLabel == <<>>                \* a select box without options returns None

\* session.laps.pick_driver(d).pick_lap(lnum): the rows with that lap number
RECURSIVE SelectRows(_, _)
SelectRows(rows, lnum) ==
    IF Len(rows) = 0 THEN <<>>
    ELSE (IF rows[1].LapNumber.n = lnum THEN <<rows[1]>> ELSE <<>>)
            \o SelectRows(Tail(rows), lnum)
PickLap(ses, d, lnum) == SelectRows(PickDriver(ses, d).rows, lnum)

\* the alignment step with the two sides exchanged in the except branch
DeltaStepSwapped(ses, delta, lap_a, lap_b, tel_a, tel_b) ==
    LET r == DeltaTime(ses, lap_a, lap_b) IN
    IF delta /\ r.ok
    THEN [tel_a |-> tel_a, tel_b |-> tel_b, outcome |-> "aligned",
          tel_a_aligned |-> r.ref_tel, tel_b_aligned |-> r.compare_tel]
    ELSE IF delta
    THEN [tel_a |-> tel_a, tel_b |-> tel_b, outcome |-> "failed",
          tel_a_aligned |-> tel_b, tel_b_aligned |-> tel_a]
    ELSE [tel_a |-> tel_a, tel_b |-> tel_b, outcome |-> "off",
          tel_a_aligned |-> tel_a, tel_b_aligned |-> tel_b]

\* lines 96-102: the alignment step, as its effect on the four telemetry locals
DeltaStep(ses, delta, lap_a, lap_b, tel_a, tel_b) ==
    LET r == DeltaTime(ses, lap_a, lap_b) IN
    IF delta /\ r.ok
    THEN [tel_a |-> tel_a, tel_b |-> tel_b, outcome |-> "aligned",
          tel_a_aligned |-> r.ref_tel, tel_b_aligned |-> r.compare_tel]
    ELSE [tel_a |-> tel_a, tel_b |-> tel_b,
          outcome |-> IF delta THEN "failed" ELSE "off",
          tel_a_aligned |-> tel_a, tel_b_aligned |-> tel_b]

\* lines 104-105: tel["Distance"] if "Distance" in tel else tel.index
XAxis(tel) ==
    [origin |-> tel.origin, lap |-> tel.lap,
     channel |-> IF "Distance" \in tel.columns THEN "Distance" ELSE "index"]

DefaultColorA == "#1f77b4"
DefaultColorB == "#ff7f0e"
\* lines 109-116
ColorA(ses, team) ==
    LET c == TeamColor(ses, team) IN IF c.ok THEN c.value ELSE DefaultColorA
\* side B falling back to side A's default
ColorBSameDefault(ses, team) ==
    LET c == TeamColor(ses, team) IN IF c.ok THEN c.value ELSE DefaultColorA
ColorB(ses, team) ==
    LET c == TeamColor(ses, team) IN IF c.ok THEN c.value ELSE DefaultColorB

\* go.Scatter(x=x, y=tel[channel] (scaled), name=..., line=dict(color, dash))
Scatter(side, tel, x, channel, scale, name, color, dash) ==
    [side |-> side, x |-> x,
     y |-> [origin |-> tel.origin, lap |-> tel.lap, channel |-> channel,
            scale |-> scale],
     name |-> name, color |-> color, dash |-> dash]

TraceIf(cond, trace) == IF cond THEN <<trace>> ELSE <<>>

\* lines 120-124; v holds the locals d1, d2, tel_*_aligned, x_*, color_*
SpeedFig(v) ==
    TraceIf("Speed" \in v.tel_a_aligned.columns,
            Scatter("A", v.tel_a_aligned, v.x_a, "Speed", "x1", <<v.d1>>,
                    v.color_a, "solid"))
    \o TraceIf("Speed" \in v.tel_b_aligned.columns,
            Scatter("B", v.tel_b_aligned, v.x_b, "Speed", "x1", <<v.d2>>,
                    v.color_b, "solid"))

\* the throttle/brake figure with side A's brake trace under the throttle guard
ThrottleBrakeFigSharedGuard(v) ==
    (IF "Throttle" \in v.tel_a_aligned.columns
     THEN <<Scatter("A", v.tel_a_aligned, v.x_a, "Throttle", "x1",
                    <<v.d1, "throttle">>, v.color_a, "solid"),
            Scatter("A", v.tel_a_aligned, v.x_a, "Brake", "x100",
                    <<v.d1, "brake%">>, v.color_a, "dash")>>
     ELSE <<>>)
    \o TraceIf("Throttle" \in v.tel_b_aligned.columns,
            Scatter("B", v.tel_b_aligned, v.x_b, "Throttle", "x1",
                    <<v.d2, "throttle">>, v.color_b, "solid"))
    \o TraceIf("Brake" \in v.tel_b_aligned.columns,
            Scatter("B", v.tel_b_aligned, v.x_b, "Brake", "x100",
                    <<v.d2, "brake%">>, v.color_b, "dash"))

\* lines 129-137
ThrottleBrakeFig(v) ==
    TraceIf("Throttle" \in v.tel_a_aligned.columns,
            Scatter("A", v.tel_a_aligned, v.x_a, "Throttle", "x1",
                    <<v.d1, "throttle">>, v.color_a, "solid"))
    \o TraceIf("Brake" \in v.tel_a_aligned.columns,
            Scatter("A", v.tel_a_aligned, v.x_a, "Brake", "x100",
                    <<v.d1, "brake%">>, v.color_a, "dash"))
    \o TraceIf("Throttle" \in v.tel_b_aligned.columns,
            Scatter("B", v.tel_b_aligned, v.x_b, "Throttle", "x1",
                    <<v.d2, "throttle">>, v.color_b, "solid"))
    \o TraceIf("Brake" \in v.tel_b_aligned.columns,
            Scatter("B", v.tel_b_aligned, v.x_b, "Brake", "x100",
                    <<v.d2, "brake%">>, v.color_b, "dash"))

\* lines 143-151
GearRpmFig(v) ==
    TraceIf("nGear" \in v.tel_a_aligned.columns,
            Scatter("A", v.tel_a_aligned, v.x_a, "nGear", "x1",
                    <<v.d1, "gear">>, v.color_a, "solid"))
    \o TraceIf("nGear" \in v.tel_b_aligned.columns,
            Scatter("B", v.tel_b_aligned, v.x_b, "nGear", "x1",
                    <<v.d2, "gear">>, v.color_b, "solid"))
    \o TraceIf("RPM" \in v.tel_a_aligned.columns,
            Scatter("A", v.tel_a_aligned, v.x_a, "RPM", "/1000",
                    <<v.d1, "RPM x1000">>, v.color_a, "dot"))
    \o TraceIf("RPM" \in v.tel_b_aligned.columns,
            Scatter("B", v.tel_b_aligned, v.x_b, "RPM", "/1000",
                    <<v.d2, "RPM x1000">>, v.color_b, "dot"))

\* line 156: all(k in tel_a.columns ...) and all(k in tel_b.columns ...)
MapAvailable(tel_a, tel_b) ==
    /\ \A k \in {"X", "Y"} : k \in tel_a.columns
    /\ \A k \in {"X", "Y"} : k \in tel_b.columns

\* lines 155-164: the page elements of the track map section, for the
\* telemetry of the two laps
MapSection(wd1, wd2, tel_a, tel_b, color_a, color_b) ==
    IF MapAvailable(tel_a, tel_b)
    THEN <<[kind |-> "plotly_chart", panel |-> "map",
            traces |-> <<
              [side |-> "A",
               x |-> [origin |-> tel_a.origin, lap |-> tel_a.lap, channel |-> "X"],
               y |-> [origin |-> tel_a.origin, lap |-> tel_a.lap, channel |-> "Y",
                      scale |-> "x1"],
               name |-> <<wd1>>, color |-> color_a, dash |-> "solid"],
              [side |-> "B",
               x |-> [origin |-> tel_b.origin, lap |-> tel_b.lap, channel |-> "X"],
               y |-> [origin |-> tel_b.origin, lap |-> tel_b.lap, channel |-> "Y",
                      scale |-> "x1"],
               name |-> <<wd2>>, color |-> color_b, dash |-> "solid"]>>]>>
    ELSE <<[kind |-> "info",
            text |-> "Track position data not available for this session or lap."]>>

\* the track map drawn from the charted (aligned) telemetry
TrackMapAligned(v) ==
    MapSection(v.d1, v.d2, v.tel_a_aligned, v.tel_b_aligned, v.color_a, v.color_b)

\* lines 155-164 with the script's locals: tel_a and tel_b, the raw telemetry
TrackMap(v) ==
    MapSection(v.d1, v.d2, v.tel_a, v.tel_b, v.color_a, v.color_b)

\* lines 118-164: everything the complete branch puts on the page
Page(v) ==
    <<[kind |-> "plotly_chart", panel |-> "speed", traces |-> SpeedFig(v)],
      [kind |-> "plotly_chart", panel |-> "throttle_brake",
       traces |-> ThrottleBrakeFig(v)],
      [kind |-> "plotly_chart", panel |-> "gear_rpm", traces |-> GearRpmFig(v)]>>
    \o TrackMap(v)

WarningPage ==
    <<[kind |-> "warning",
       text |-> "Select valid drivers and laps to render telemetry."]>>

Raised(line, exc) == [stage |-> "raised", line |-> line, exc |-> exc, out |-> <<>>]

\* the guard letting the comparison run when either side is selected
SelectionCompleteEither(laps_d1, laps_d2, l1, l2) ==
    \/ Len(laps_d1.rows) > 0 /\ l1 # NoLabel
    \/ Len(laps_d2.rows) > 0 /\ l2 # NoLabel

\* line 86
SelectionComplete(laps_d1, laps_d2, l1, l2) ==
    /\ Len(laps_d1.rows) > 0
    /\ Len(laps_d2.rows) > 0
    /\ l1 # NoLabel
    /\ l2 # NoLabel

\* lines 104-164, from the telemetry locals on
Charts(ses, wd1, wd2, lnum1, lnum2, t) ==
    LET team_a == DriverTeam(ses, wd1)
        team_b == DriverTeam(ses, wd2)
    IN
    IF ~team_a.ok THEN Raised(107, team_a.exc)
    ELSE IF ~team_b.ok THEN Raised(108, team_b.exc)
    ELSE
    LET v == [d1 |-> wd1, d2 |-> wd2,
              tel_a |-> t.tel_a, tel_b |-> t.tel_b,
              tel_a_aligned |-> t.tel_a_aligned,
              tel_b_aligned |-> t.tel_b_aligned,
              x_a |-> XAxis(t.tel_a_aligned), x_b |-> XAxis(t.tel_b_aligned),
              color_a |-> ColorA(ses, team_a.value),
              color_b |-> ColorB(ses, team_b.value)]
    IN [stage |-> "done", out |-> Page(v),
        lnum1 |-> lnum1, lnum2 |-> lnum2, outcome |-> t.outcome,
        tel_a |-> v.tel_a, tel_b |-> v.tel_b,
        tel_a_aligned |-> v.tel_a_aligned, tel_b_aligned |-> v.tel_b_aligned,
        team_a |-> team_a.value, team_b |-> team_b.value,
        color_a |-> v.color_a, color_b |-> v.color_b]

\* lines 87-102, then the charts
Compare(ses, wd1, wd2, l1, l2, delta) ==
    LET p1 == PyInt(SplitFirst(l1, Sep))
        p2 == PyInt(SplitFirst(l2, Sep))
    IN
    IF ~p1.ok THEN Raised(87, p1.exc)
    ELSE IF ~p2.ok THEN Raised(88, p2.exc)
    ELSE
    LET rows_a == PickLap(ses, wd1, p1.value)
        rows_b == PickLap(ses, wd2, p2.value)
    IN
    IF Len(rows_a) = 0 THEN Raised(93, "no such lap")
    ELSE IF Len(rows_b) = 0 THEN Raised(94, "no such lap")
    ELSE
    LET lap_a == <<rows_a[1].Driver, rows_a[1].LapNumber.n>>
        lap_b == <<rows_b[1].Driver, rows_b[1].LapNumber.n>>
        t == DeltaStep(ses, delta, lap_a, lap_b,
                       LoadLapTelemetry(ses, lap_a), LoadLapTelemetry(ses, lap_b))
    IN Charts(ses, wd1, wd2, p1.value, p2.value, t)

\* one execution of the script with the widgets' values
Script(ses, wd1, wd2, l1, l2, delta) ==
    LET laps_d1 == LoadDriverLaps(ses, wd1)
        laps_d2 == LoadDriverLaps(ses, wd2)
    IN
    IF ~laps_d1.ok THEN Raised(76, laps_d1.exc)
    ELSE IF ~laps_d2.ok THEN Raised(77, laps_d2.exc)
    ELSE IF SelectionComplete(laps_d1, laps_d2, l1, l2)
    THEN Compare(ses, wd1, wd2, l1, l2, delta)
    ELSE [stage |-> "warning", out |-> WarningPage]

(***************************************************************************)
(* The sidebar: lines 72-82.                                               *)
(***************************************************************************)
\* lines 79-80: the options of a lap box, laps["LapLabel"] or []
LapOptions(ses, d) ==
    LET laps == LoadDriverLaps(ses, d) IN
    IF laps.ok /\ Len(laps.rows) > 0
    THEN [i \in 1..Len(laps.rows) |-> laps.rows[i].LapLabel]
    ELSE <<>>

\* a select box shows its first option until the user picks another one
FirstOption(options) == IF Len(options) = 0 THEN NoLabel ELSE options[1]

\* a select box keeps the user's choice while its options stay the same
Selectbox(current, before, options) ==
    IF options = before THEN current ELSE FirstOption(options)

Min(a, b) == IF a < b THEN a ELSE b

(***************************************************************************)
(* The sessions the model loads.  Each family varies the data of one part  *)
(* of the script over all its cases and keeps the rest at BaseSession.     *)
(***************************************************************************)
BoolSamples == {[t |-> "bool", b |-> TRUE], [t |-> "bool", b |-> FALSE]}
NumSamples == {[t |-> "num", v |-> 0], [t |-> "num", v |-> 100]}
BrakeSeries(n) == [1..n -> BoolSamples] \cup [1..n -> NumSamples]

BaseSession ==
    [lapsFail |-> FALSE,
     nLaps |-> [d \in Drivers |-> 1],
     natLaps |-> {},
     numRep |-> "int",
     teamCol |-> [d \in Drivers |-> "set"],
     info |-> "dict",
     known |-> TeamNames,
     cols |-> [d \in Drivers |-> Channels \cup Position],
     nullCols |-> [d \in Drivers |-> {}],
     samples |-> 1,
     brake |-> <<[t |-> "bool", b |-> TRUE]>>,
     align |-> "ok",
     alignedCols |-> <<Channels, Channels>>]

\* laps per driver, missing lap times, representation of the lap number
LapSessions ==
    {[BaseSession EXCEPT !.nLaps = n, !.natLaps = nat, !.numRep = rep] :
        n \in [Drivers -> 0..MaxLaps], nat \in SUBSET (1..MaxLaps),
        rep \in {"int", "float"}}

\* team and color metadata
TeamSessions ==
    {[BaseSession EXCEPT !.teamCol = tc, !.info = i, !.known = k] :
        tc \in [Drivers -> TeamCols], i \in InfoKinds, k \in SUBSET TeamNames}

\* channels of the laps' own telemetry
ChannelSessions ==
    {[BaseSession EXCEPT !.cols = [d \in Drivers |-> c[d] \cup Position],
                         !.align = "raises"] :
        c \in [Drivers -> SUBSET Channels]}

\* channels of the alignment result
AlignedSessions ==
    {[BaseSession EXCEPT !.alignedCols = <<ca, cb>>] :
        ca \in SUBSET Channels, cb \in SUBSET Channels}

\* position columns: each of X and Y absent, present but all null, or present
ColumnStates == {"absent", "null", "present"}
PositionSessions ==
    {[BaseSession EXCEPT
        !.cols = [d \in Drivers |->
                    Channels \cup {k \in Position : p[d][k] # "absent"}],
        !.nullCols = [d \in Drivers |-> {k \in Position : p[d][k] = "null"}],
        !.align = a] :
        p \in [Drivers -> [Position -> ColumnStates]], a \in {"ok", "raises"}}

\* number of samples and the provider's representation of Brake
BrakeSessions ==
    UNION {{[BaseSession EXCEPT !.samples = n, !.brake = b, !.align = a] :
                b \in BrakeSeries(n), a \in {"ok", "raises"}} :
           n \in 0..MaxSamples}

Sessions ==
    LapSessions \cup TeamSessions \cup ChannelSessions \cup AlignedSessions
    \cup PositionSessions \cup BrakeSessions

(***************************************************************************)
(* The page: first execution, then one execution per widget change.        *)
(***************************************************************************)
Idle == [state |-> "idle", code |-> "none"]

Init ==
    /\ session \in Sessions
    /\ d1 = DriverList[1]
    /\ d2 = DriverList[Min(1, Len(DriverList) - 1) + 1]
    /\ lap1 = FirstOption(LapOptions(session, d1))
    /\ lap2 = FirstOption(LapOptions(session, d2))
    /\ show_delta = TRUE
    /\ view = Script(session, d1, d2, lap1, lap2, show_delta)
    /\ call = Idle

SelectDriverA(d) ==
    /\ d # d1
    /\ d1' = d
    /\ lap1' = Selectbox(lap1, LapOptions(session, d1), LapOptions(session, d))
    /\ view' = Script(session, d1', d2, lap1', lap2, show_delta)
    /\ UNCHANGED <<session, d2, lap2, show_delta, call>>

SelectDriverB(d) ==
    /\ d # d2
    /\ d2' = d
    /\ lap2' = Selectbox(lap2, LapOptions(session, d2), LapOptions(session, d))
    /\ view' = Script(session, d1, d2', lap1, lap2', show_delta)
    /\ UNCHANGED <<session, d1, lap1, show_delta, call>>

SelectLapA(i) ==
    /\ i \in 1..Len(LapOptions(session, d1))
    /\ LapOptions(session, d1)[i] # lap1
    /\ lap1' = LapOptions(session, d1)[i]
    /\ view' = Script(session, d1, d2, lap1', lap2, show_delta)
    /\ UNCHANGED <<session, d1, d2, lap2, show_delta, call>>

SelectLapB(i) ==
    /\ i \in 1..Len(LapOptions(session, d2))
    /\ LapOptions(session, d2)[i] # lap2
    /\ lap2' = LapOptions(session, d2)[i]
    /\ view' = Script(session, d1, d2, lap1, lap2', show_delta)
    /\ UNCHANGED <<session, d1, d2, lap1, show_delta, call>>

ToggleDelta ==
    /\ show_delta' = ~show_delta
    /\ view' = Script(session, d1, d2, lap1, lap2, show_delta')
    /\ UNCHANGED <<session, d1, d2, lap1, lap2, call>>

Next ==
    \/ \E d \in Drivers : SelectDriverA(d)
    \/ \E d \in Drivers : SelectDriverB(d)
    \/ \E i \in 1..MaxLaps : SelectLapA(i)
    \/ \E i \in 1..MaxLaps : SelectLapB(i)
    \/ ToggleDelta

Spec == Init /\ [][Next]_vars

(***************************************************************************)
(* _driver_team called on its own, on every session a caller can pass.     *)
(***************************************************************************)
LookupSessions ==
    {[BaseSession EXCEPT !.lapsFail = f, !.nLaps = n, !.teamCol = tc, !.info = i] :
        f \in BOOLEAN, n \in [Drivers -> 0..1], tc \in [Drivers -> TeamCols],
        i \in InfoKinds}

InitTeam ==
    /\ session \in LookupSessions
    /\ d1 = DriverList[1]
    /\ d2 = DriverList[Min(1, Len(DriverList) - 1) + 1]
    /\ lap1 = NoLabel
    /\ lap2 = NoLabel
    /\ show_delta = TRUE
    /\ view = [stage |-> "none", out |-> <<>>]
    /\ call = Idle

CallDriverTeam(code) ==
    /\ call.code # code
    /\ call' = [state |-> "called", code |-> code,
                result |-> DriverTeam(session, code)]
    /\ UNCHANGED <<session, d1, d2, lap1, lap2, show_delta, view>>

NextTeam == \E code \in Drivers : CallDriverTeam(code)

SpecTeam == InitTeam /\ [][NextTeam]_vars

(***************************************************************************)
(* Properties.                                                             *)
(***************************************************************************)
Called == call.state = "called"
Done == view.stage = "done"

\* the lap behind a chosen label: <<driver, lap number>> of the row it labels
LapOfLabel(d, label) ==
    LET rows == LoadDriverLaps(session, d).rows
        i == CHOOSE j \in 1..Len(rows) : rows[j].LapLabel = label
    IN <<d, rows[i].LapNumber.n>>

PageKinds(kind) == {i \in 1..Len(view.out) : view.out[i].kind = kind}
Panel(name) ==
    {view.out[i].traces : i \in {j \in PageKinds("plotly_chart") :
                                    view.out[j].panel = name}}

\* the team the fallback chain is specified to give
SpecifiedTeam(ses, code) ==
    IF ses.nLaps[code] > 0 /\ ses.teamCol[code] = "set" THEN LapTeamName(code)
    ELSE IF ses.info \in {"dict", "series"} THEN InfoTeamName(code)
    ELSE "Unknown"
\* C1: _driver_team returns the lap-level team when the driver's laps carry a
\* non-null Team, otherwise the driver-info team name whenever the driver-info
\* query yields one (in whatever form the provider returns the record),
\* otherwise "Unknown".
C1_TeamPriority ==
    (Called /\ ~session.lapsFail) =>
        /\ call.result.ok
        /\ call.result.value = SpecifiedTeam(session, call.code)

\* C2: _driver_team never raises: whichever lookup fails, the lap-level one
\* included, the call returns a team-name string.
C2_TeamNeverRaises ==
    Called => call.result.ok /\ call.result.value \in TeamNames \cup {"Unknown"}

\* a row's label has an all-digit first token and parses back to its lap number
LabelRoundTrips(row) ==
    LET token == SplitFirst(row.LapLabel, Sep)
        parsed == PyInt(token)
    IN /\ \A i \in 1..Len(token) : IsDigit(token[i])
       /\ row.LapLabel = token \o Sep \o TimeStr(row.LapTime)
       /\ parsed.ok
       /\ parsed.value = row.LapNumber.n
\* C3: every label of load_driver_laps is "<integer> · <lap time or NaT>" and
\* the script's parsing of it (split on " · ", first token, int) succeeds and
\* gives back the lap number, whatever the representation of the lap number.
C3_LabelRoundTrip ==
    /\ \A d \in {d1, d2} :
         \A i \in 1..Len(LoadDriverLaps(session, d).rows) :
            LabelRoundTrips(LoadDriverLaps(session, d).rows[i])
    /\ view.stage = "raised" => view.line \notin {87, 88}

\* the execution got to the alignment step, which was requested and raised
AlignRequestedAndFails ==
    /\ show_delta
    /\ session.align = "raises"
    /\ view.stage # "warning"
    /\ view.stage = "raised" => view.line >= 96
\* C4: alignment requested and the provider's call raises: the exception is
\* absorbed and each side charts its own lap's unaligned telemetry, non-empty
\* whenever that lap's telemetry is non-empty.
C4_AlignFallback ==
    AlignRequestedAndFails =>
        /\ Done
        /\ view.outcome = "failed"
        /\ view.tel_a_aligned = LoadLapTelemetry(session, LapOfLabel(d1, lap1))
        /\ view.tel_b_aligned = LoadLapTelemetry(session, LapOfLabel(d2, lap2))
        /\ view.tel_a_aligned.origin = "get_telemetry"
        /\ view.tel_b_aligned.origin = "get_telemetry"
        /\ GetTelemetry(session, LapOfLabel(d1, lap1)).nrows > 0
              => view.tel_a_aligned.nrows > 0
        /\ GetTelemetry(session, LapOfLabel(d2, lap2)).nrows > 0
              => view.tel_b_aligned.nrows > 0
C4_Witness ==
    /\ AlignRequestedAndFails
    /\ Done
    /\ d1 # d2
    /\ view.tel_a_aligned # view.tel_b_aligned
    /\ view.tel_a_aligned.nrows > 0

\* C5: each side's color is the provider's team color when the lookup for the
\* resolved team succeeds, and otherwise that side's fixed default, "#1f77b4"
\* for A and "#ff7f0e" for B; the defaults differ; a failure on one side leaves
\* the other side's color alone; team "Unknown" still gets a color.
C5_ColorFallback ==
    Done =>
        /\ TeamColor(session, view.team_a).ok
              => view.color_a = TeamColor(session, view.team_a).value
        /\ ~TeamColor(session, view.team_a).ok => view.color_a = "#1f77b4"
        /\ TeamColor(session, view.team_b).ok
              => view.color_b = TeamColor(session, view.team_b).value
        /\ ~TeamColor(session, view.team_b).ok => view.color_b = "#ff7f0e"
        /\ DefaultColorA # DefaultColorB
        /\ view.team_a = "Unknown" => view.color_a = "#1f77b4"
        /\ view.team_b = "Unknown" => view.color_b = "#ff7f0e"
C5_Witness ==
    /\ Done
    /\ view.team_a = "Unknown"
    /\ view.color_a = "#1f77b4"
    /\ view.team_b # "Unknown"
    /\ TeamColor(session, view.team_b).ok
    /\ view.color_b = PaletteColor(view.team_b)

\* the number a Brake sample stands for
Numeric(v) == IF v.t = "bool" THEN (IF v.b THEN 1 ELSE 0) ELSE v.v
BrakeZeroOne(tel) ==
    "Brake" \in tel.columns =>
        \A i \in 1..Len(tel.Brake) : Numeric(tel.Brake[i]) \in {0, 1}
\* C6: every Brake value that reaches the charts is 0 or 1, whatever the
\* provider's representation, with alignment off, failed or succeeded.
C6_BrakeZeroOne ==
    Done => BrakeZeroOne(view.tel_a_aligned) /\ BrakeZeroOne(view.tel_b_aligned)

\* X and Y present and not all null
HasPosition(tel) == \A k \in Position : k \in tel.columns /\ k \notin tel.nulls
\* C7: the track map is drawn only when both laps have non-null X and Y
\* columns; in every other case (a column missing, or present with only nulls)
\* the placeholder is shown and no map trace is drawn; never both.
C7_MapOnlyWithPosition ==
    Done =>
        /\ Panel("map") # {} <=> HasPosition(view.tel_a) /\ HasPosition(view.tel_b)
        /\ PageKinds("info") # {} <=> Panel("map") = {}

\* the channels a distance panel draws, and the traces it holds
PanelChannels(name) ==
    IF name = "speed" THEN {"Speed"}
    ELSE IF name = "throttle_brake" THEN {"Throttle", "Brake"}
    ELSE {"nGear", "RPM"}
Charted(side) == IF side = "A" THEN view.tel_a_aligned ELSE view.tel_b_aligned
TracesMatchChannels(name) ==
    \E fig \in Panel(name) :
        /\ Panel(name) = {fig}
        /\ \A side \in {"A", "B"} : \A ch \in PanelChannels(name) :
              (\E i \in 1..Len(fig) :
                    /\ fig[i].side = side
                    /\ fig[i].y.channel = ch
                    /\ fig[i].y.lap = Charted(side).lap
                    /\ fig[i].y.origin = Charted(side).origin)
                <=> ch \in Charted(side).columns
        /\ \A i \in 1..Len(fig) :
              fig[i].x.channel = (IF "Distance" \in Charted(fig[i].side).columns
                                  THEN "Distance" ELSE "index")
        /\ Len(fig) = Cardinality({<<side, ch>> \in {"A", "B"} \X PanelChannels(name) :
                                        ch \in Charted(side).columns})
\* C8: whatever channels the charted telemetry of either side has, the pass
\* finishes without an exception, the three distance panels are on the page,
\* and a panel holds the trace of a channel and side exactly when that side's
\* charted telemetry has the channel.
C8_MissingChannels ==
    /\ view.stage = "raised" => view.line < 104
    /\ Done => \A name \in {"speed", "throttle_brake", "gear_rpm"} :
                  TracesMatchChannels(name)
C8_Witness ==
    /\ Done
    /\ view.tel_a_aligned.columns \cap Channels = {"Brake"}
    /\ view.tel_b_aligned.columns \cap Channels = {"Distance", "nGear"}

\* both drivers have a lap and both lap boxes hold a label
Complete ==
    /\ session.nLaps[d1] > 0
    /\ session.nLaps[d2] > 0
    /\ lap1 # NoLabel
    /\ lap2 # NoLabel
\* C9: an execution that reaches the output stage either has complete
\* selections and renders the panels without a warning, or has incomplete
\* selections and shows exactly one warning and nothing else, with no lap
\* telemetry loaded or aligned.
C9_WarningOrCharts ==
    /\ Done =>
        /\ Complete
        /\ PageKinds("warning") = {}
        /\ \A name \in {"speed", "throttle_brake", "gear_rpm"} : Panel(name) # {}
    /\ view.stage = "warning" =>
        /\ ~Complete
        /\ Cardinality(PageKinds("warning")) = 1
        /\ Len(view.out) = 1
        /\ DOMAIN view = {"stage", "out"}
    /\ ~Complete => view.stage = "warning"
C9_Witness ==
    /\ view.stage = "warning"
    /\ session.nLaps[d1] > 0
    /\ lap1 # NoLabel
    /\ session.nLaps[d2] = 0

\* C10: whatever the toggle and the outcome of the alignment call, the track
\* map's availability test and its traces use each lap's raw telemetry as
\* load_lap_telemetry returned it, and the alignment step leaves it unchanged.
C10_MapUsesRaw ==
    Done =>
        /\ view.tel_a = LoadLapTelemetry(session, LapOfLabel(d1, lap1))
        /\ view.tel_b = LoadLapTelemetry(session, LapOfLabel(d2, lap2))
        /\ view.outcome \in {"off", "failed"} =>
              view.tel_a_aligned = view.tel_a /\ view.tel_b_aligned = view.tel_b
        /\ Panel("map") # {} <=>
              /\ Position \subseteq GetTelemetry(session, LapOfLabel(d1, lap1)).columns
              /\ Position \subseteq GetTelemetry(session, LapOfLabel(d2, lap2)).columns
        /\ \A fig \in Panel("map") : \A i \in 1..Len(fig) :
              /\ fig[i].x.origin = "get_telemetry"
              /\ fig[i].y.origin = "get_telemetry"
              /\ fig[i].x.lap = (IF fig[i].side = "A" THEN view.tel_a.lap
                                 ELSE view.tel_b.lap)
              /\ fig[i].y.lap = fig[i].x.lap
C10_Witness ==
    /\ Done
    /\ view.outcome = "aligned"
    /\ view.tel_a_aligned # view.tel_a
    /\ Panel("map") # {}

====
